---- MODULE Spec2Model ----
(***************************************************************************)
(* The webhook registry of src/src/webhooks/registry.ts: register (an      *)
(* async function with two transport awaits), process (synchronous         *)
(* dispatch of an inbound webhook) and the process-wide webhookRegistry.   *)
(*                                                                         *)
(* Strings the code transforms (topics, header names, bodies) are modelled *)
(* as sequences so that the transformations are computed, not assumed.     *)
(***************************************************************************)
EXTENDS Integers, Sequences, FiniteSets, TLC

VARIABLES
  webhookRegistry,  \* the WebhookRegistryEntry[] array, in array order
  calls,            \* the register calls in flight, one record per call slot
  out               \* what the operation that completed last gave its caller

vars == <<webhookRegistry, calls, out>>

(***************************************************************************)
(* Bounds of the model.                                                    *)
(***************************************************************************)
\* Longest request body, in bytes.
MaxBodyLen == 1

(***************************************************************************)
(* Values.                                                                 *)
(***************************************************************************)
\* enum DeliveryMethod; Unset is an omitted deliveryMethod option.
Http == "http"
EventBridge == "eventbridge"
Unset == "undefined"
DeliveryMethod == {Http, EventBridge}

\* StatusCode of @shopify/network.
Forbidden == 403
Ok == 200

\* Context.HOST_NAME and Context.API_SECRET_KEY, read at call time.
HOST_NAME == "host"
API_SECRET_KEY == "secret"

\* The two call slots: at most two register calls are in flight at once.
Calls == {"c1", "c2"}

\* Path components a caller may pass.
Paths == {"/a", "/b"}

\* Topic strings, as character sequences.  "O_C" is the GraphQL enum form,
\* "o/c" the form of the webhook topic header (orders/create).
TopicEnum == <<"O", "_", "C">>
TopicSlash == <<"o", "/", "c">>
TopicLower == <<"o", "_", "c">>
TopicOther == <<"p", "/", "u">>
HeaderTopics == {TopicEnum, TopicSlash, TopicLower, TopicOther}

\* Source domains of the domain header.
Domains == {"shop1", "shop2"}

\* Bytes of a body: an ASCII letter and a byte that is no valid UTF-8.
Bytes == {65, 255}

RECURSIVE SeqsUpTo(_, _)
SeqsUpTo(S, n) ==
  IF n = 0 THEN {<<>>}
  ELSE LET shorter == SeqsUpTo(S, n - 1)
       IN shorter \cup {Append(s, x) : s \in shorter, x \in S}

Bodies == SeqsUpTo(Bytes, MaxBodyLen)

(***************************************************************************)
(* String functions of the runtime, computed on character sequences.       *)
(***************************************************************************)
\* String.prototype.toUpperCase, one character.
UpperChar(ch) ==
  CASE ch = "o" -> "O"
    [] ch = "c" -> "C"
    [] ch = "p" -> "P"
    [] ch = "u" -> "U"
    [] OTHER -> ch

\* Faulty variant: toUpperCase() without the replace.
GraphqlTopicUpperOnly(topic) == [i \in DOMAIN topic |-> UpperChar(topic[i])]

\* topic.toUpperCase().replace(/\//g, '_')
GraphqlTopic(topic) ==
  [i \in DOMAIN topic |->
     IF UpperChar(topic[i]) = "/" THEN "_" ELSE UpperChar(topic[i])]

\* body.toString('utf-8') followed by update(..., 'utf8'): a byte that is no
\* valid UTF-8 decodes to U+FFFD, which encodes as EF BF BD.
RECURSIVE Utf8RoundTrip(_)
Utf8RoundTrip(body) ==
  IF body = <<>> THEN <<>>
  ELSE (IF Head(body) < 128 THEN <<Head(body)>> ELSE <<239, 191, 189>>)
       \o Utf8RoundTrip(Tail(body))

\* createHmac('sha256', key).update(text).digest('base64'): a keyed digest
\* is modelled as an injective function of the key and the bytes hashed.
Digest(key, bytes) == <<"hmac-sha256", key, bytes>>

\* ShopifyUtilities.safeCompare: constant-time string equality.
safeCompare(a, b) == a = b

(***************************************************************************)
(* The transport (GraphqlClient.query) and what it may answer.             *)
(***************************************************************************)
\* An absent value (undefined).
Undefined == "undefined"

\* `https://${Context.HOST_NAME}${path}`
Address(path) == <<"https://", HOST_NAME, path>>

\* Subscription identifiers and callback addresses the platform may report.
WebhookIds == {"gid1", "gid2"}
CallbackUrls == {Address(p) : p \in Paths} \cup {<<"https://", "elsewhere", "/a">>}

\* buildCheckQuery asks for `first: 1` subscription.
FirstN == 1

\* The answers to the existence check: the transport rejects, the body is
\* not a WebhookCheckResponse, or it is one with at most FirstN edges.
CheckEdges ==
  SeqsUpTo([id : WebhookIds, callbackUrl : CallbackUrls], FirstN)
CheckResponses ==
  { [kind |-> k, edges |-> <<>>] : k \in {"rejected", "malformed"} }
    \cup { [kind |-> "body", edges |-> e] : e \in CheckEdges }

MutationNames ==
  {"webhookSubscriptionCreate", "webhookSubscriptionUpdate",
   "eventBridgeWebhookSubscriptionCreate", "eventBridgeWebhookSubscriptionUpdate"}

\* Response bodies of a mutation: null, an object without data ({} or
\* {errors}), or an object whose data holds one field, with or without a
\* webhookSubscription node under it.
NullBody == [isNull |-> TRUE, hasData |-> FALSE, field |-> Undefined, node |-> FALSE]
EmptyBody == [isNull |-> FALSE, hasData |-> FALSE, field |-> Undefined, node |-> FALSE]
MutationBodies ==
  {NullBody, EmptyBody}
    \cup [isNull : {FALSE}, hasData : {TRUE},
          field : MutationNames \cup {Undefined}, node : {FALSE}]
    \cup [isNull : {FALSE}, hasData : {TRUE}, field : MutationNames, node : {TRUE}]
MutationResponses ==
  { [kind |-> "rejected", body |-> EmptyBody] }
    \cup { [kind |-> "body", body |-> b] : b \in MutationBodies }

\* result.data && result.data[name] && result.data[name].webhookSubscription
HasNode(result, name) ==
  result.hasData /\ result.field = name /\ result.node

\* Faulty variant: a webhookSubscription node counts under any name.
isSuccessAnyName(result, deliveryMethod, webhookId) ==
  result.hasData /\ result.node

\* function isSuccess(result, deliveryMethod, webhookId)
isSuccess(result, deliveryMethod, webhookId) ==
  CASE deliveryMethod = Http ->
         IF webhookId # Undefined
           THEN HasNode(result, "webhookSubscriptionUpdate")
           ELSE HasNode(result, "webhookSubscriptionCreate")
    [] deliveryMethod = EventBridge ->
         IF webhookId # Undefined
           THEN HasNode(result, "eventBridgeWebhookSubscriptionUpdate")
           ELSE HasNode(result, "eventBridgeWebhookSubscriptionCreate")
    [] OTHER -> FALSE

\* function buildCheckQuery(topic): the request it describes.
buildCheckQuery(topic) ==
  [kind |-> "query",
   name |-> "webhookSubscriptions", by |-> "topics", topic |-> topic,
   id |-> Undefined, arg |-> Undefined, address |-> <<>>]

\* Faulty variant: the subscription found is not looked at, the mutation
\* is always a create addressed by topic.
buildQueryCreateOnly(topic, address, deliveryMethod, webhookId) ==
  [kind |-> "mutation",
   name |-> IF deliveryMethod = Http THEN "webhookSubscriptionCreate"
                                     ELSE "eventBridgeWebhookSubscriptionCreate",
   by |-> "topic", topic |-> topic, id |-> Undefined,
   arg |-> IF deliveryMethod = Http THEN "callbackUrl" ELSE "arn",
   address |-> address]

\* function buildQuery(topic, address, deliveryMethod, webhookId)
buildQuery(topic, address, deliveryMethod, webhookId) ==
  [kind |-> "mutation",
   name |->
     IF deliveryMethod = Http
       THEN (IF webhookId # Undefined THEN "webhookSubscriptionUpdate"
                                     ELSE "webhookSubscriptionCreate")
       ELSE (IF webhookId # Undefined THEN "eventBridgeWebhookSubscriptionUpdate"
                                     ELSE "eventBridgeWebhookSubscriptionCreate"),
   by |-> IF webhookId # Undefined THEN "id" ELSE "topic",
   topic |-> IF webhookId # Undefined THEN <<>> ELSE topic,
   id |-> webhookId,
   arg |-> IF deliveryMethod = Http THEN "callbackUrl" ELSE "arn",
   address |-> address]

(***************************************************************************)
(* The registry store.                                                     *)
(***************************************************************************)
\* Faulty variant: the filter keeps the topic's entries and drops the rest.
OnlyTopic(registry, topic) ==
  SelectSeq(registry, LAMBDA item : item.topic = topic)

\* webhookRegistry.filter((item) => item.topic !== topic)
WithoutTopic(registry, topic) ==
  SelectSeq(registry, LAMBDA item : item.topic # topic)

\* The entries of a topic, in array order.
EntriesFor(registry, topic) ==
  SelectSeq(registry, LAMBDA entry : entry.topic = topic)

\* Faulty variant: push without the filter.
UpsertNoFilter(registry, path, topic, webhookHandler) ==
  Append(registry,
         [path |-> path, topic |-> topic, webhookHandler |-> webhookHandler])

\* Faulty variant: a topic that has an entry keeps it.
UpsertKeepOld(registry, path, topic, webhookHandler) ==
  IF Len(EntriesFor(registry, topic)) # 0 THEN registry
  ELSE Append(registry,
              [path |-> path, topic |-> topic, webhookHandler |-> webhookHandler])

\* Faulty variant: the registry becomes the new entry alone.
UpsertAlone(registry, path, topic, webhookHandler) ==
  <<[path |-> path, topic |-> topic, webhookHandler |-> webhookHandler]>>

\* The store update of register: drop the topic's entries, push the new one.
Upsert(registry, path, topic, webhookHandler) ==
  Append(WithoutTopic(registry, topic),
         [path |-> path, topic |-> topic, webhookHandler |-> webhookHandler])

(***************************************************************************)
(* register: the call slots.                                               *)
(***************************************************************************)
\* A slot holds the locals of a register call between its awaits, and the
\* requests it has sent.  Six fields are history: givenMethod, the
\* deliveryMethod option as the caller gave it; received, the body of the
\* answer to the mutation; failed, whether the transport rejected a request
\* of the call; checkSaw, what the
\* existence check answered ("none": no subscription, "same": one whose
\* callbackUrl is the target address, "other": one with another address,
\* "malformed": a body that is no WebhookCheckResponse);
\* older, the calls that were in flight when this one started; overtaken,
\* whether a call that started later has already replaced this call's topic.
Idle ==
  [pc |-> "idle", topic |-> <<>>, path |-> "", webhookHandler |-> "",
   deliveryMethod |-> Http, webhookId |-> Undefined, sent |-> <<>>,
   givenMethod |-> Unset, received |-> EmptyBody, failed |-> FALSE,
   checkSaw |-> "pending", older |-> {}, overtaken |-> FALSE]

InFlight == {c \in Calls : calls[c].pc # "idle"}

\* What is recorded of the request a process call was given (see Observe).
NoInput ==
  [absent |-> {}, signature |-> "none", topic |-> <<>>, domain |-> "",
   body |-> <<>>]

\* out is what a completed register or process call has handed its caller
\* and the caller has not yet taken; the next step runs once it is taken.
NoOut ==
  [op |-> "none", result |-> "none",
   \* register: the options given, the RegisterReturn, the requests sent
   topic |-> <<>>, path |-> "", webhookHandler |-> "",
   success |-> FALSE, body |-> EmptyBody, sent |-> <<>>,
   \* register, history: see Idle; mutation is the name of the mutation
   \* the call sent; replaced is the handler of the entry that a
   \* successful call replaced
   checkSaw |-> "pending", overtaken |-> FALSE, replaced |-> "",
   mutation |-> Undefined, received |-> EmptyBody, failed |-> FALSE,
   \* isWebhookPath: the answer (the path asked for is in path)
   isPath |-> FALSE,
   \* process: the headers the error names, whether the signature was
   \* compared, the ProcessReturn, the handler invocations, the request
   missing |-> <<>>, verified |-> FALSE, statusCode |-> 0, invoked |-> <<>>,
   given |-> NoInput]

RequestKinds(sent) == [i \in DOMAIN sent |-> sent[i].kind]

\* What a register call hands its caller: a RegisterReturn, or an exception.
RegisterOut(call, result, success, body) ==
  [NoOut EXCEPT !.op = "register", !.result = result,
                !.topic = call.topic, !.path = call.path,
                !.webhookHandler = call.webhookHandler,
                !.success = success, !.body = body,
                !.sent = RequestKinds(call.sent),
                !.mutation = IF Len(call.sent) > 1 THEN call.sent[2].name
                                                   ELSE Undefined,
                !.received = call.received, !.failed = call.failed,
                !.checkSaw = call.checkSaw, !.overtaken = call.overtaken]

\* The options a caller may pass to register (shop and accessToken only
\* select the transport client and are left out).
Options(topic, path, deliveryMethod, webhookHandler) ==
  [topic |-> topic, path |-> path, deliveryMethod |-> deliveryMethod,
   webhookHandler |-> webhookHandler]
RegisterOptions ==
  { Options(TopicEnum, "/a", Unset, "H1"),
    Options(TopicEnum, "/b", Http, "H2"),
    Options(TopicEnum, "/a", EventBridge, "H2"),
    Options(TopicSlash, "/a", Http, "H1"),
    Options(TopicSlash, "/b", EventBridge, "H2") }

\* register, up to its first await: the existence check is sent.
Register(c, options) ==
  /\ out = NoOut
  /\ calls[c].pc = "idle"
  /\ calls' = [calls EXCEPT ![c] =
       [pc |-> "check",
        topic |-> options.topic,
        path |-> options.path,
        webhookHandler |-> options.webhookHandler,
        deliveryMethod |-> IF options.deliveryMethod = Unset
                             THEN Http ELSE options.deliveryMethod,
        webhookId |-> Undefined,
        sent |-> <<buildCheckQuery(options.topic)>>,
        givenMethod |-> options.deliveryMethod,
        received |-> EmptyBody,
        failed |-> FALSE,
        checkSaw |-> "pending",
        older |-> InFlight,
        overtaken |-> FALSE]]
  /\ UNCHANGED <<webhookRegistry, out>>

\* Faulty variant: a request the transport rejected is sent once more.
ThrowRetry(c, call, result) ==
  IF result = "rejected" /\ Len(call.sent) < 3
    THEN /\ calls' = [calls EXCEPT ![c] =
              [call EXCEPT !.sent = Append(call.sent, call.sent[Len(call.sent)])]]
         /\ UNCHANGED <<webhookRegistry, out>>
    ELSE /\ calls' = [d \in Calls |->
              IF d = c THEN Idle
              ELSE [calls[d] EXCEPT !.older = calls[d].older \ {c}]]
         /\ out' = RegisterOut(call, result, FALSE, EmptyBody)
         /\ UNCHANGED webhookRegistry

\* The call ends with an exception: nothing after the await runs.
Throw(c, call, result) ==
  /\ calls' = [d \in Calls |->
       IF d = c THEN Idle ELSE [calls[d] EXCEPT !.older = calls[d].older \ {c}]]
  /\ out' = RegisterOut(call, result, FALSE, EmptyBody)
  /\ UNCHANGED webhookRegistry

\* Call d started after call c, for the same topic, while c was in flight,
\* and d created its subscription (its existence check read none).
Overtakes(d, c) ==
  /\ c \in calls[d].older
  /\ calls[c].pc # "idle"
  /\ calls[c].topic = calls[d].topic
  /\ calls[d].checkSaw = "none"
  /\ Len(calls[d].sent) = 2

\* The slots once call c has returned, and what c hands its caller.
Returned(c, call, success, body) ==
  /\ calls' = [d \in Calls |->
       IF d = c THEN Idle
       ELSE [calls[d] EXCEPT
               !.older = calls[d].older \ {c},
               !.overtaken = calls[d].overtaken \/ (success /\ Overtakes(c, d))]]
  /\ out' = [RegisterOut(call, "returned", success, body) EXCEPT
               !.replaced =
                 IF success /\ Len(EntriesFor(webhookRegistry, call.topic)) # 0
                   THEN EntriesFor(webhookRegistry, call.topic)[1].webhookHandler
                   ELSE ""]

\* Faulty variant: the store is updated whether or not the call succeeded.
SettleAlways(c, call, success, body) ==
  /\ webhookRegistry' =
       Upsert(webhookRegistry, call.path, call.topic, call.webhookHandler)
  /\ Returned(c, call, success, body)

\* Faulty variant: a call that another call for its topic has overtaken leaves the
\* store as that call wrote it.
SettleFirstWins(c, call, success, body) ==
  /\ webhookRegistry' =
       IF success /\ ~call.overtaken
         THEN Upsert(webhookRegistry, call.path, call.topic, call.webhookHandler)
         ELSE webhookRegistry
  /\ Returned(c, call, success, body)

\* register from `if (success)` to its return.
Settle(c, call, success, body) ==
  /\ webhookRegistry' =
       IF success
         THEN Upsert(webhookRegistry, call.path, call.topic, call.webhookHandler)
         ELSE webhookRegistry
  /\ Returned(c, call, success, body)

\* let webhookId: the identifier of the first subscription found, if any.
FoundId(edges) == IF Len(edges) # 0 THEN edges[1].id ELSE Undefined

\* Faulty variant: the mutation is sent whatever the existence check answered.
MustRegisterAlways(edges, address) == TRUE

\* let mustRegister: false only when the first subscription found already
\* calls back to the target address.
MustRegister(edges, address) ==
  ~(Len(edges) # 0 /\ edges[1].callbackUrl = address)

\* What the existence check answered, for the properties.
CheckSaw(edges, address) ==
  IF Len(edges) = 0 THEN "none"
  ELSE IF \E i \in DOMAIN edges : edges[i].callbackUrl = address THEN "same"
  ELSE "other"

\* register from the answer to the existence check to its next await, or to
\* its return when no mutation is needed.
CheckAnswered(c, response) ==
  /\ out = NoOut
  /\ calls[c].pc = "check"
  /\ IF response.kind = "rejected"
       THEN Throw(c, [calls[c] EXCEPT !.failed = TRUE], "rejected")
     ELSE IF response.kind = "malformed"
       THEN Throw(c, [calls[c] EXCEPT !.checkSaw = "malformed"], "typeError")
     ELSE
       LET address == Address(calls[c].path)
           webhookId == FoundId(response.edges)
           call == [calls[c] EXCEPT
                      !.webhookId = webhookId,
                      !.checkSaw = CheckSaw(response.edges, address)]
       IN IF MustRegister(response.edges, address)
            THEN /\ calls' = [calls EXCEPT ![c] =
                      [call EXCEPT
                         !.pc = "mutation",
                         !.sent = Append(call.sent,
                            buildQuery(call.topic, address,
                                       call.deliveryMethod, webhookId))]]
                 /\ UNCHANGED <<webhookRegistry, out>>
            ELSE Settle(c, call, TRUE, EmptyBody)

\* register from the answer to the mutation to its return.
MutationAnswered(c, response) ==
  /\ out = NoOut
  /\ calls[c].pc = "mutation"
  /\ IF response.kind = "rejected"
       THEN Throw(c, [calls[c] EXCEPT !.failed = TRUE], "rejected")
     ELSE IF response.body.isNull
       THEN Throw(c, [calls[c] EXCEPT !.received = response.body], "typeError")
     ELSE Settle(c, [calls[c] EXCEPT !.received = response.body],
                 isSuccess(response.body, calls[c].deliveryMethod,
                           calls[c].webhookId),
                 response.body)

(***************************************************************************)
(* process.                                                                *)
(***************************************************************************)
\* enum ShopifyHeader.
HeaderHmac == "X-Shopify-Hmac-Sha256"
HeaderTopic == "X-Shopify-Topic"
HeaderDomain == "X-Shopify-Shop-Domain"
HeaderOther == "Content-Type"

\* String.prototype.toLowerCase on the header names that occur.
LowerName(name) ==
  CASE name = "X-Shopify-Hmac-Sha256" -> "x-shopify-hmac-sha256"
    [] name = "X-Shopify-Topic" -> "x-shopify-topic"
    [] name = "X-Shopify-Shop-Domain" -> "x-shopify-shop-domain"
    [] name = "Content-Type" -> "content-type"
    [] OTHER -> name

\* let hmac, topic, domain: undefined until a header sets them.
NoHeaders ==
  [hasHmac |-> FALSE, hmac |-> <<>>, hasTopic |-> FALSE, topic |-> <<>>,
   hasDomain |-> FALSE, domain |-> ""]

\* The loop over the headers, from entry i on: a later entry of the same
\* header (in another case) overwrites an earlier one.
RECURSIVE ExtractHeaders(_, _, _)
ExtractHeaders(headers, i, found) ==
  IF i > Len(headers) THEN found
  ELSE LET header == headers[i].name
           lower == LowerName(header)
           next ==
             IF header = "" THEN found
             ELSE IF lower = LowerName(HeaderHmac)
               THEN [found EXCEPT !.hmac = headers[i].value, !.hasHmac = TRUE]
             ELSE IF lower = LowerName(HeaderTopic)
               THEN [found EXCEPT !.topic = headers[i].value, !.hasTopic = TRUE]
             ELSE IF lower = LowerName(HeaderDomain)
               THEN [found EXCEPT !.domain = headers[i].value, !.hasDomain = TRUE]
             ELSE found
       IN ExtractHeaders(headers, i + 1, next)

\* Faulty variant: only the first missing header is reported.
MissingHeadersFirstOnly(found) ==
  IF ~found.hasHmac \/ found.hmac = <<>> THEN <<HeaderHmac>>
  ELSE IF ~found.hasTopic \/ found.topic = <<>> THEN <<HeaderTopic>>
  ELSE IF ~found.hasDomain \/ found.domain = "" THEN <<HeaderDomain>>
  ELSE <<>>

\* The missingHeaders array: !x holds of undefined and of the empty string.
MissingHeaders(found) ==
  (IF ~found.hasHmac \/ found.hmac = <<>> THEN <<HeaderHmac>> ELSE <<>>)
    \o (IF ~found.hasTopic \/ found.topic = <<>> THEN <<HeaderTopic>> ELSE <<>>)
    \o (IF ~found.hasDomain \/ found.domain = "" THEN <<HeaderDomain>> ELSE <<>>)

\* Faulty variant: find without the topic test, which yields the first entry.
FindFirst(registry, graphqlTopic) ==
  IF Len(registry) = 0 THEN <<>> ELSE <<registry[1]>>

\* webhookRegistry.find((entry) => entry.topic === graphqlTopic): the first
\* such entry in array order, as a sequence of at most one entry.
FindByTopic(registry, graphqlTopic) ==
  LET hits == EntriesFor(registry, graphqlTopic)
  IN IF Len(hits) = 0 THEN <<>> ELSE <<hits[1]>>

\* const generatedHash = ...; safeCompare(generatedHash, hmac)
SignatureMatches(body, hmac) ==
  safeCompare(Digest(API_SECRET_KEY, Utf8RoundTrip(body)), hmac)

\* A process call that has compared the signature.
Verified == [NoOut EXCEPT !.op = "process", !.verified = TRUE]

\* The call of the handler: its arguments.
Invocation(webhookEntry, graphqlTopic, domain, body) ==
  <<[webhookHandler |-> webhookEntry[1].webhookHandler,
     topic |-> graphqlTopic, shop_domain |-> domain, body |-> body]>>

\* Faulty variant: the handler is called without `if (webhookEntry)`.
DispatchUnguarded(webhookEntry, graphqlTopic, domain, body, throws) ==
  IF Len(webhookEntry) = 0
    THEN [Verified EXCEPT !.result = "typeError"]
  ELSE IF throws
    THEN [Verified EXCEPT !.result = "handlerThrew",
            !.invoked = Invocation(webhookEntry, graphqlTopic, domain, body)]
  ELSE [Verified EXCEPT !.result = "returned", !.statusCode = Ok,
          !.invoked = Invocation(webhookEntry, graphqlTopic, domain, body)]

\* Faulty variant: statusCode = Ok is assigned after the `if (webhookEntry)`
\* block, not inside it.
DispatchOkAnyway(webhookEntry, graphqlTopic, domain, body, throws) ==
  IF Len(webhookEntry) = 0
    THEN [Verified EXCEPT !.result = "returned", !.statusCode = Ok]
  ELSE IF throws
    THEN [Verified EXCEPT !.result = "handlerThrew",
            !.invoked = Invocation(webhookEntry, graphqlTopic, domain, body)]
  ELSE [Verified EXCEPT !.result = "returned", !.statusCode = Ok,
          !.invoked = Invocation(webhookEntry, graphqlTopic, domain, body)]

\* process from `if (webhookEntry)` to its return: without an entry the
\* result stays Forbidden; with one, the handler is called, and Ok is
\* assigned once the handler has returned.
Dispatch(webhookEntry, graphqlTopic, domain, body, throws) ==
  IF Len(webhookEntry) = 0
    THEN [Verified EXCEPT !.result = "returned", !.statusCode = Forbidden]
  ELSE IF throws
    THEN [Verified EXCEPT !.result = "handlerThrew",
            !.invoked = Invocation(webhookEntry, graphqlTopic, domain, body)]
  ELSE [Verified EXCEPT !.result = "returned", !.statusCode = Ok,
          !.invoked = Invocation(webhookEntry, graphqlTopic, domain, body)]

\* What process gives its caller for a request: a ProcessReturn or an
\* exception, with the handler invocations it made.  `throws` tells whether
\* the handler, if invoked, throws.
ProcessOut(registry, headers, body, throws) ==
  LET found == ExtractHeaders(headers, 1, NoHeaders)
      missingHeaders == MissingHeaders(found)
      graphqlTopic == GraphqlTopic(found.topic)
      webhookEntry == FindByTopic(registry, graphqlTopic)
      base == [NoOut EXCEPT !.op = "process"]
  IN IF Len(missingHeaders) # 0
       THEN [base EXCEPT !.result = "invalidWebhook", !.missing = missingHeaders]
     ELSE IF ~SignatureMatches(body, found.hmac)
       THEN [base EXCEPT !.result = "returned", !.verified = TRUE,
                         !.statusCode = Forbidden]
     ELSE Dispatch(webhookEntry, graphqlTopic, found.domain, body, throws)

(***************************************************************************)
(* The requests process is given.                                          *)
(***************************************************************************)
\* How the sender spells the header names.
Cased(casing, name) == IF casing = "lower" THEN LowerName(name) ELSE name

\* The bytes of the text that a body decodes to as UTF-8, written out for
\* the bodies of Bodies: a byte that is no UTF-8 is read as U+FFFD.
DecodedText(body) ==
  CASE body = <<>> -> <<>>
    [] body = <<65>> -> <<65>>
    [] body = <<255>> -> <<239, 191, 189>>
    [] body = <<65, 65>> -> <<65, 65>>
    [] body = <<65, 255>> -> <<65, 239, 191, 189>>
    [] body = <<255, 65>> -> <<239, 191, 189, 65>>
    [] body = <<255, 255>> -> <<239, 191, 189, 239, 191, 189>>

\* The signature a request carries: an empty one, the digest of the bytes of
\* the body, the digest of the text the body decodes to, the digest of
\* another body, or the digest of the body under another key.
Signature(kind, body) ==
  CASE kind = "valid" -> Digest(API_SECRET_KEY, body)
    [] kind = "decoded" -> Digest(API_SECRET_KEY, DecodedText(body))
    [] kind = "otherBody" -> Digest(API_SECRET_KEY, body \o <<66>>)
    [] kind = "otherKey" -> Digest("other", body)
    [] OTHER -> <<>>

Headers3 == {HeaderHmac, HeaderTopic, HeaderDomain}

\* A request: the headers it leaves out, the values of the others, the body.
Input(casing, absent, signature, topic, domain, body) ==
  [casing |-> casing, absent |-> absent, signature |-> signature,
   topic |-> topic, domain |-> domain, body |-> body]

\* Requests with all three headers, spelled as ShopifyHeader spells them.
CompleteInputs ==
  { Input("canonical", {}, s, t, d, b) :
      s \in {"valid", "decoded", "otherBody", "otherKey"}, t \in HeaderTopics,
      d \in Domains, b \in Bodies }

\* Requests with all three headers, spelled in lower case.
LowerCaseInputs ==
  { Input("lower", {}, "valid", t, "shop1", <<65>>) : t \in HeaderTopics }

\* Requests that leave out some of the three headers, or give an empty one.
IncompleteInputs ==
  { Input(c, a, "valid", TopicSlash, "shop1", <<65>>) :
      c \in {"canonical", "lower"}, a \in (SUBSET Headers3) \ {{}} }
    \cup { Input("canonical", {}, "empty", TopicSlash, "shop1", <<65>>),
           Input("canonical", {}, "valid", <<>>, "shop1", <<65>>),
           Input("canonical", {}, "valid", TopicSlash, "", <<65>>),
           Input("canonical", {HeaderTopic}, "empty", TopicSlash, "", <<65>>) }

ProcessInputs == CompleteInputs \cup LowerCaseInputs \cup IncompleteInputs

\* The few requests of the specification of concurrent registration.
SampleInputs ==
  { Input("canonical", {}, "valid", TopicSlash, "shop1", <<65>>),
    Input("canonical", {}, "decoded", TopicSlash, "shop1", <<255>>),
    Input("canonical", {HeaderTopic}, "valid", TopicSlash, "shop1", <<65>>) }

\* The headers record of a request, in insertion order.
HeadersOf(input) ==
  <<[name |-> HeaderOther, value |-> "application/json"]>>
    \o (IF HeaderHmac \notin input.absent
          THEN <<[name |-> Cased(input.casing, HeaderHmac),
                  value |-> Signature(input.signature, input.body)]>>
          ELSE <<>>)
    \o (IF HeaderTopic \notin input.absent
          THEN <<[name |-> Cased(input.casing, HeaderTopic), value |-> input.topic]>>
          ELSE <<>>)
    \o (IF HeaderDomain \notin input.absent
          THEN <<[name |-> Cased(input.casing, HeaderDomain), value |-> input.domain]>>
          ELSE <<>>)

\* What is recorded of a request, for the properties: the headers that are
\* absent or empty; and with all three present, whether the signature is
\* the digest of the bytes of the body under API_SECRET_KEY, the topic, the
\* domain and the body given.
Observe(input) ==
  LET absent ==
        input.absent
          \cup (IF input.signature = "empty" THEN {HeaderHmac} ELSE {})
          \cup (IF input.topic = <<>> THEN {HeaderTopic} ELSE {})
          \cup (IF input.domain = "" THEN {HeaderDomain} ELSE {})
  IN IF absent # {} THEN [NoInput EXCEPT !.absent = absent]
     ELSE [NoInput EXCEPT
             !.signature =
               IF Signature(input.signature, input.body)
                    = Digest(API_SECRET_KEY, input.body)
                 THEN "match" ELSE "mismatch",
             !.topic = input.topic, !.domain = input.domain, !.body = input.body]

\* Faulty variant: an entry is used up by the dispatch to its handler.
ProcessOnce(input, throws) ==
  LET done == ProcessOut(webhookRegistry, HeadersOf(input), input.body, throws)
  IN /\ out = NoOut
     /\ out' = [done EXCEPT !.given = Observe(input)]
     /\ webhookRegistry' =
          IF Len(done.invoked) = 0 THEN webhookRegistry
          ELSE WithoutTopic(webhookRegistry, done.invoked[1].topic)
     /\ UNCHANGED calls

\* One process call; it runs to completion.
Process(input, throws) ==
  /\ out = NoOut
  /\ out' = [ProcessOut(webhookRegistry, HeadersOf(input), input.body, throws)
               EXCEPT !.given = Observe(input)]
  /\ UNCHANGED <<webhookRegistry, calls>>

\* Faulty variant: only the first entry of the registry is looked at.
isWebhookPathFirst(registry, path) ==
  Len(registry) # 0 /\ registry[1].path = path

\* isWebhookPath(path): Boolean(webhookRegistry.find(entry.path === path))
isWebhookPath(registry, path) ==
  Len(SelectSeq(registry, LAMBDA entry : entry.path = path)) # 0

\* One isWebhookPath call.
IsWebhookPath(path) ==
  /\ out = NoOut
  /\ out' = [NoOut EXCEPT !.op = "isWebhookPath", !.result = "returned",
                          !.path = path,
                          !.isPath = isWebhookPath(webhookRegistry, path)]
  /\ UNCHANGED <<webhookRegistry, calls>>

\* The caller takes what the completed call handed it.
Collect ==
  /\ out # NoOut
  /\ out' = NoOut
  /\ UNCHANGED <<webhookRegistry, calls>>

(***************************************************************************)
(* Specifications.                                                         *)
(***************************************************************************)
Init ==
  /\ webhookRegistry = <<>>
  /\ calls = [c \in Calls |-> Idle]
  /\ out = NoOut

\* Registration with calls that overlap at their awaits, and dispatch.
Next ==
  \/ \E c \in Calls, options \in RegisterOptions : Register(c, options)
  \/ \E c \in Calls, response \in CheckResponses : CheckAnswered(c, response)
  \/ \E c \in Calls, response \in MutationResponses : MutationAnswered(c, response)
  \/ \E input \in SampleInputs, throws \in BOOLEAN : Process(input, throws)
  \/ Collect

Spec == Init /\ [][Next]_vars

\* Dispatch of every request, with register calls one after the other.
NextDispatch ==
  \/ \E options \in RegisterOptions : Register("c1", options)
  \/ \E response \in CheckResponses : CheckAnswered("c1", response)
  \/ \E response \in MutationResponses : MutationAnswered("c1", response)
  \/ \E input \in ProcessInputs, throws \in BOOLEAN : Process(input, throws)
  \/ \E path \in Paths : IsWebhookPath(path)
  \/ Collect

SpecDispatch == Init /\ [][NextDispatch]_vars

(***************************************************************************)
(* Properties.                                                             *)
(***************************************************************************)
\* The canonical form of each topic a request may carry, written out:
\* upper case, every '/' replaced by '_'.
CanonicalForm(topic) ==
  CASE topic = TopicEnum -> <<"O", "_", "C">>
    [] topic = TopicSlash -> <<"O", "_", "C">>
    [] topic = TopicLower -> <<"O", "_", "C">>
    [] topic = TopicOther -> <<"P", "_", "U">>

\* A process call has completed on a request with all three headers (each
\* with a value that is not empty) and a signature that is / is not the
\* digest of the bytes of the body under API_SECRET_KEY.
Matched == out.op = "process" /\ out.given.signature = "match"
Mismatched == out.op = "process" /\ out.given.signature = "mismatch"

\* The body of the request of out is text: every byte of it is ASCII, so
\* that it is valid UTF-8.
TextBody == \A i \in DOMAIN out.given.body : out.given.body[i] < 128

\* The one invocation of the handler of `entry` for the request of out.
InvocationOf(entry, topic) ==
  <<[webhookHandler |-> entry.webhookHandler, topic |-> topic,
     shop_domain |-> out.given.domain, body |-> out.given.body]>>

\* The entry a successful register call leaves for its topic.
EntryOfOut ==
  [path |-> out.path, topic |-> out.topic, webhookHandler |-> out.webhookHandler]

\* C1: in every reachable state, whatever register calls (also overlapping
\* ones for the same topic) and process calls have run, webhookRegistry
\* holds at most one entry per topic.
C1_OneEntryPerTopic ==
  \A i, j \in DOMAIN webhookRegistry :
    i # j => webhookRegistry[i].topic # webhookRegistry[j].topic

\* C1: two overlapping calls for one topic have both succeeded, and the
\* registry holds entries for two topics.
C1_Witness ==
  /\ out.op = "register" /\ out.success /\ out.overtaken
  /\ Len(webhookRegistry) = 2

\* C2: no step of a register call changes webhookRegistry unless it is the
\* return of a call that reports success: a return with success = false and
\* a transport failure of the existence check or of the mutation leave the
\* registry as it was.
C2_FailureLeavesRegistry ==
  [][ ((\E c \in Calls : calls'[c] # calls[c])
         /\ ~(out'.op = "register" /\ out'.success))
      => webhookRegistry' = webhookRegistry ]_vars

\* C2: a call has returned success = false for a topic whose entry, with
\* another handler, is still in the registry.
C2_Witness ==
  /\ out.op = "register" /\ out.result = "returned" /\ ~out.success
  /\ Len(EntriesFor(webhookRegistry, out.topic)) = 1
  /\ EntriesFor(webhookRegistry, out.topic)[1].webhookHandler # out.webhookHandler

\* C3, as claimed: a process call with all three headers and a signature
\* that differs from the digest of the body under the configured secret
\* returns Forbidden and invokes no handler, whatever the registry holds.
C3_MismatchForbidden ==
  Mismatched =>
    /\ out.result = "returned"
    /\ out.statusCode = Forbidden
    /\ out.invoked = <<>>

\* C3: process has accepted a signature that is not the digest of the body:
\* the body is the byte 255, the signature is the digest of the bytes of
\* U+FFFD, and the handler of the topic was invoked with status Ok.
C3_AcceptedMismatch ==
  /\ Mismatched
  /\ out.given.body = <<255>>
  /\ out.statusCode = Ok
  /\ Len(out.invoked) = 1

\* C3, for bodies that are text: there a signature that differs is refused.
C3_TextMismatchForbidden ==
  (Mismatched /\ TextBody) =>
    /\ out.result = "returned"
    /\ out.statusCode = Forbidden
    /\ out.invoked = <<>>

\* C4, as claimed: with a matching signature and an entry for the canonical
\* topic, that entry's handler is invoked once with (canonical topic,
\* domain, body), no other handler is, and the status is Ok.
C4_DispatchToEntry ==
  (Matched /\ Len(EntriesFor(webhookRegistry, CanonicalForm(out.given.topic))) # 0)
    => /\ out.invoked =
            InvocationOf(EntriesFor(webhookRegistry,
                                    CanonicalForm(out.given.topic))[1],
                         CanonicalForm(out.given.topic))
       /\ out.result = "returned"
       /\ out.statusCode = Ok

\* C4: a request signed with the digest of its body, the byte 255, was
\* refused with Forbidden although its topic has an entry; no handler ran.
C4_RefusedMatch ==
  /\ Matched
  /\ out.given.body = <<255>>
  /\ Len(EntriesFor(webhookRegistry, CanonicalForm(out.given.topic))) = 1
  /\ out.result = "returned"
  /\ out.statusCode = Forbidden
  /\ out.invoked = <<>>

\* C4, for bodies that are text: the entry's handler is invoked once with
\* (canonical topic, domain, body) and no other is; the status is Ok when
\* the handler returns, and process ends with the handler's exception, and
\* no status, when it throws.
C4_TextDispatchToEntry ==
  (Matched /\ TextBody
     /\ Len(EntriesFor(webhookRegistry, CanonicalForm(out.given.topic))) # 0)
    => /\ out.invoked =
            InvocationOf(EntriesFor(webhookRegistry,
                                    CanonicalForm(out.given.topic))[1],
                         CanonicalForm(out.given.topic))
       /\ \/ out.result = "returned" /\ out.statusCode = Ok
          \/ out.result = "handlerThrew" /\ out.statusCode = 0

\* C5, as claimed: once register has succeeded for the topic orders/create
\* with handler H, a request with topic header orders/create and a matching
\* signature invokes H with (ORDERS_CREATE, domain, body) and returns Ok.
C5_Original ==
  (Matched /\ out.given.topic = TopicSlash
     /\ Len(EntriesFor(webhookRegistry, TopicSlash)) # 0)
    => /\ out.invoked =
            InvocationOf(EntriesFor(webhookRegistry, TopicSlash)[1], TopicEnum)
       /\ out.statusCode = Ok

\* C5, amended: register stores the topic as given, and the lookup key is
\* the canonical form of the topic header.  A request with topic header
\* orders/create, a body that is text and a matching signature invokes the
\* handler registered for ORDERS_CREATE with (ORDERS_CREATE, domain, body),
\* and returns Ok if the handler returns; with no entry for ORDERS_CREATE it
\* returns Forbidden and invokes nothing, also when an entry for
\* orders/create exists.
C5_EndToEnd ==
  (Matched /\ TextBody /\ out.given.topic = TopicSlash)
    => IF Len(EntriesFor(webhookRegistry, TopicEnum)) # 0
         THEN /\ out.invoked =
                   InvocationOf(EntriesFor(webhookRegistry, TopicEnum)[1], TopicEnum)
              /\ out.result \in {"returned", "handlerThrew"}
              /\ out.result = "returned" => out.statusCode = Ok
         ELSE /\ out.invoked = <<>>
              /\ out.result = "returned"
              /\ out.statusCode = Forbidden

\* C5: the request orders/create reached the handler registered for
\* ORDERS_CREATE, not the other one registered for orders/create.
C5_Witness ==
  /\ Matched /\ out.given.topic = TopicSlash /\ out.statusCode = Ok
  /\ Len(EntriesFor(webhookRegistry, TopicSlash)) = 1
  /\ Len(out.invoked) = 1
  /\ out.invoked[1].webhookHandler
       # EntriesFor(webhookRegistry, TopicSlash)[1].webhookHandler

\* C6: a process call on a request that lacks some of the three headers
\* ends with InvalidWebhookError naming exactly the headers that are
\* lacking, each once; the signature is not compared, no handler is invoked
\* and the registry is unchanged.
C6_MissingHeaders ==
  [][ (out.op = "none" /\ out'.op = "process" /\ out'.given.absent # {})
      => /\ out'.result = "invalidWebhook"
         /\ {out'.missing[i] : i \in DOMAIN out'.missing} = out'.given.absent
         /\ Len(out'.missing) = Cardinality(out'.given.absent)
         /\ ~out'.verified
         /\ out'.invoked = <<>>
         /\ webhookRegistry' = webhookRegistry ]_vars

\* C6: the error named two headers, with handlers registered.
C6_Witness ==
  /\ out.op = "process" /\ out.result = "invalidWebhook"
  /\ Len(out.missing) = 2
  /\ Len(webhookRegistry) # 0

\* C7: with all three headers and a matching signature, a request whose
\* canonical topic has no entry returns Forbidden and invokes no handler.
C7_UnknownTopicForbidden ==
  (Matched /\ Len(EntriesFor(webhookRegistry, CanonicalForm(out.given.topic))) = 0)
    => /\ out.result = "returned"
       /\ out.statusCode = Forbidden
       /\ out.invoked = <<>>

\* C7: a request with a matching signature over a body that is text was
\* refused for its topic while the registry holds entries for other topics.
C7_Witness ==
  /\ Matched /\ TextBody /\ out.given.body # <<>>
  /\ out.statusCode = Forbidden
  /\ Len(webhookRegistry) = 2

\* C8: after a register call has returned success, the registry holds
\* exactly one entry for its topic, with that call's path and handler (so
\* the second of two calls for a topic is in effect); and a dispatch invokes
\* only the handler of the one entry of its topic.
C8_SecondHandlerInEffect ==
  /\ (out.op = "register" /\ out.success)
       => EntriesFor(webhookRegistry, out.topic) = <<EntryOfOut>>
  /\ (out.op = "process" /\ Len(out.invoked) # 0)
       => /\ Len(out.invoked) = 1
          /\ Len(EntriesFor(webhookRegistry, out.invoked[1].topic)) = 1
          /\ EntriesFor(webhookRegistry, out.invoked[1].topic)[1].webhookHandler
               = out.invoked[1].webhookHandler

\* C8: a second call for the topic has replaced the entry of H1 by one with
\* H2 and another path.
C8_Witness ==
  /\ out.op = "register" /\ out.success
  /\ out.replaced = "H1" /\ out.webhookHandler = "H2" /\ out.path = "/b"
  /\ EntriesFor(webhookRegistry, out.topic) = <<EntryOfOut>>

\* C9: a call whose existence check answered a subscription with the target
\* address as callbackUrl sent no mutation and returns success = true with
\* an empty payload; a call whose check answered anything else has sent
\* exactly one mutation.
C9_MutationOnlyWhenNeeded ==
  /\ (out.op = "register" /\ out.checkSaw = "same")
       => /\ out.sent = <<"query">>
          /\ out.result = "returned" /\ out.success /\ out.body = EmptyBody
  /\ (out.op = "register" /\ out.checkSaw \in {"none", "other"})
       => out.sent = <<"query", "mutation">>
  /\ \A c \in Calls :
       /\ calls[c].checkSaw \in {"none", "other"}
            => RequestKinds(calls[c].sent) = <<"query", "mutation">>
       /\ calls[c].checkSaw = "same" => RequestKinds(calls[c].sent) = <<"query">>

\* C9: an already registered subscription was taken over without a mutation.
C9_Witness ==
  /\ out.op = "register" /\ out.checkSaw = "same" /\ out.success
  /\ out.sent = <<"query">>
  /\ EntriesFor(webhookRegistry, out.topic) = <<EntryOfOut>>

\* C10: whenever a call returns success, also one that a later call for the
\* same topic has overtaken, the registry holds one entry for the topic and
\* it is the entry of the call that has just returned (the last writer).
C10_LastWriterWins ==
  (out.op = "register" /\ out.success)
    => /\ Len(EntriesFor(webhookRegistry, out.topic)) = 1
       /\ webhookRegistry[Len(webhookRegistry)] = EntryOfOut

\* C10: two calls for one topic overlapped, both read no subscription, both
\* sent their create mutation and both returned success; the call that
\* started first returned last and its entry replaced the other's.
C10_Witness ==
  /\ out.op = "register" /\ out.success /\ out.overtaken
  /\ out.checkSaw = "none" /\ out.sent = <<"query", "mutation">>
  /\ out.replaced # "" /\ out.replaced # out.webhookHandler
  /\ EntriesFor(webhookRegistry, out.topic) = <<EntryOfOut>>

\* The mutation name the specification gives for a delivery method as the
\* caller gave it and for update (a subscription was found) or create.
ExpectedMutation(givenMethod, found) ==
  CASE givenMethod = Unset /\ found -> "webhookSubscriptionUpdate"
    [] givenMethod = Unset /\ ~found -> "webhookSubscriptionCreate"
    [] givenMethod = Http /\ found -> "webhookSubscriptionUpdate"
    [] givenMethod = Http /\ ~found -> "webhookSubscriptionCreate"
    [] givenMethod = EventBridge /\ found -> "eventBridgeWebhookSubscriptionUpdate"
    [] givenMethod = EventBridge /\ ~found -> "eventBridgeWebhookSubscriptionCreate"

\* C11: the mutation a register call has sent is an update addressed by the
\* identifier found exactly when the existence check answered a
\* subscription, and otherwise a create addressed by the topic; its name is
\* the one of the delivery method given, with Http when none is given.
C11_MutationChosen ==
  \A c \in Calls :
    calls[c].pc = "mutation" =>
      LET request == calls[c].sent[2]
          found == calls[c].checkSaw # "none"
      IN /\ Len(calls[c].sent) = 2
         /\ request.kind = "mutation"
         /\ request.name = ExpectedMutation(calls[c].givenMethod, found)
         /\ found => /\ request.by = "id"
                     /\ request.id = calls[c].webhookId
                     /\ request.id \in WebhookIds
         /\ ~found => /\ request.by = "topic"
                      /\ request.topic = calls[c].topic
                      /\ request.id = Undefined

\* C11: a call that gave no delivery method and whose check found the
\* subscription gid2 with another address has sent webhookSubscriptionUpdate
\* for gid2.
C11_Witness ==
  \E c \in Calls :
    /\ calls[c].pc = "mutation"
    /\ calls[c].givenMethod = Unset
    /\ calls[c].checkSaw = "other"
    /\ calls[c].sent[2].name = "webhookSubscriptionUpdate"
    /\ calls[c].sent[2].id = "gid2"

\* A register call has returned after sending a mutation.
ReturnedAfterMutation ==
  /\ out.op = "register" /\ out.result = "returned"
  /\ out.mutation # Undefined

\* C12: a register call that sent a mutation and returns reports success
\* exactly when the answer holds data.<name>.webhookSubscription for the
\* name of the mutation it sent; the result it returns is the body of the
\* answer as received.
C12_SuccessByIssuedName ==
  ReturnedAfterMutation =>
    /\ out.success <=> /\ out.received.hasData
                       /\ out.received.field = out.mutation
                       /\ out.received.node
    /\ out.body = out.received

\* C12: the answer held a webhookSubscription node under the name of
\* another mutation; the call returned success = false with that answer.
C12_Witness ==
  /\ ReturnedAfterMutation
  /\ out.received.node /\ out.received.field # out.mutation
  /\ ~out.success
  /\ out.body = out.received

\* A register call has ended on a malformed answer: the body of the answer
\* to its existence check was no WebhookCheckResponse, or the answer to its
\* mutation lacks the webhookSubscription node under the mutation's name.
EndedOnMalformed ==
  /\ out.op = "register"
  /\ \/ out.checkSaw = "malformed"
     \/ /\ out.mutation # Undefined
        /\ out.result # "rejected"
        /\ ~(out.received.hasData /\ out.received.field = out.mutation
               /\ out.received.node)

\* C13, as claimed: a malformed answer received during registration makes
\* register return success = false; it never surfaces as an exception.
C13_MalformedIsFailure ==
  EndedOnMalformed => (out.result = "returned" /\ ~out.success)

\* C13: the existence check was answered with a body without
\* data.webhookSubscriptions, and register ended with a TypeError after that
\* one request.
C13_TypeErrorEscapes ==
  /\ out.op = "register"
  /\ out.checkSaw = "malformed"
  /\ out.result = "typeError"
  /\ out.sent = <<"query">>

\* C13, for the answers to the mutation that are objects: one that lacks
\* the node makes register return success = false.
C13_ObjectWithoutNodeFails ==
  (EndedOnMalformed /\ out.mutation # Undefined /\ ~out.received.isNull)
    => (out.result = "returned" /\ ~out.success)

\* The topics that have an entry.
RegisteredTopics == {webhookRegistry[i].topic : i \in DOMAIN webhookRegistry}

\* C14: in every step, of register with any outcome and of process, each
\* topic that has an entry still has one afterwards: entries go only by
\* being replaced.
C14_TopicsNeverShrink ==
  [][RegisteredTopics \subseteq RegisteredTopics']_vars

\* C14: a call has replaced the entry of its topic through an update
\* mutation while another topic has an entry, and both topics are there.
C14_Witness ==
  /\ out.op = "register" /\ out.success
  /\ out.replaced # "" /\ out.checkSaw = "other"
  /\ Cardinality(RegisteredTopics) = 2

\* C15: a process call, whatever its outcome (missing-header error,
\* Forbidden, Ok, or the exception of the handler), leaves webhookRegistry
\* as it was, and a handler it invokes is that of an entry the registry
\* held for the topic when the call ran.
C15_ProcessLeavesRegistry ==
  [][ (out.op = "none" /\ out'.op = "process")
      => /\ webhookRegistry' = webhookRegistry
         /\ \A i \in DOMAIN out'.invoked :
              \E j \in DOMAIN webhookRegistry :
                /\ webhookRegistry[j].topic = out'.invoked[i].topic
                /\ webhookRegistry[j].webhookHandler
                     = out'.invoked[i].webhookHandler ]_vars

\* C15: a handler was invoked and threw, and both entries are in place.
C15_Witness ==
  /\ out.op = "process" /\ out.result = "handlerThrew"
  /\ Len(out.invoked) = 1
  /\ Len(webhookRegistry) = 2

\* A process call has completed on a request with all three headers.
Complete == out.op = "process" /\ out.given.signature \in {"match", "mismatch"}

C17_NoRetry ==
  /\ \A c \in Calls :
       /\ calls[c].pc = "check" => RequestKinds(calls[c].sent) = <<"query">>
       /\ calls[c].pc = "mutation"
            => RequestKinds(calls[c].sent) = <<"query", "mutation">>
       /\ ~calls[c].failed
  /\ out.op = "register" =>
       /\ out.sent \in {<<"query">>, <<"query", "mutation">>}
       /\ out.failed =>
            /\ out.result = "rejected" /\ ~out.success
            /\ out.checkSaw = "pending" => out.sent = <<"query">>
            /\ out.checkSaw # "pending" => out.sent = <<"query", "mutation">>
       /\ out.result = "rejected" => out.failed

\* C17: the transport rejected the update mutation of a call; the call
\* ended with the rejection after its two requests.
C17_Witness ==
  /\ out.op = "register" /\ out.failed /\ out.result = "rejected"
  /\ out.checkSaw = "other"
  /\ out.sent = <<"query", "mutation">>
  /\ out.mutation = "webhookSubscriptionUpdate"

\* C19: in every step, the entries of a topic U (path and handler) change
\* only if the step is the successful return of a register call for U: a
\* register call for another topic, at any of its steps and however the
\* calls interleave, leaves the entry of U as it was.
C19_OtherTopicsUntouched ==
  [][ \A U \in RegisteredTopics \cup RegisteredTopics' :
        EntriesFor(webhookRegistry', U) # EntriesFor(webhookRegistry, U)
          => /\ out.op = "none" /\ out'.op = "register"
             /\ out'.success /\ out'.topic = U ]_vars

\* C19: a call has returned success for its topic while a call for another
\* topic, which has an entry, is waiting for the answer to its mutation.
C19_Witness ==
  /\ out.op = "register" /\ out.success
  /\ \E c \in Calls :
       /\ calls[c].pc = "mutation"
       /\ calls[c].topic # out.topic
       /\ Len(EntriesFor(webhookRegistry, calls[c].topic)) = 1

\* Some entry of the registry has the path.
PathIn(registry, path) == \E i \in DOMAIN registry : registry[i].path = path

\* C20: isWebhookPath answers true exactly for the paths of the entries the
\* registry holds, and leaves the registry as it is; a path comes to be a
\* webhook path only by the successful return of a register call with that
\* path; and after such a return any other path still is one exactly if an
\* entry of another topic has it, so that the path of the entry replaced
\* is reported no longer unless another topic uses it.
C20_WebhookPaths ==
  /\ [](/\ \A p \in Paths :
             isWebhookPath(webhookRegistry, p) <=> PathIn(webhookRegistry, p)
        /\ out.op = "isWebhookPath"
             => (out.isPath <=> PathIn(webhookRegistry, out.path)))
  /\ [][ /\ (out.op = "none" /\ out'.op = "isWebhookPath")
              => webhookRegistry' = webhookRegistry
         /\ \A p \in Paths :
              (~PathIn(webhookRegistry, p) /\ PathIn(webhookRegistry', p))
                => /\ out'.op = "register" /\ out'.success
                   /\ out'.path = p
         /\ (out.op = "none" /\ out'.op = "register" /\ out'.success)
              => \A p \in Paths \ {out'.path} :
                   PathIn(webhookRegistry', p)
                     <=> \E i \in DOMAIN webhookRegistry :
                           /\ webhookRegistry[i].path = p
                           /\ webhookRegistry[i].topic # out'.topic
     ]_vars

\* C20: the entry of ORDERS_CREATE with path /a was replaced by one with
\* path /b, and /a is a webhook path no longer while /b is one.
C20_Witness ==
  /\ out.op = "register" /\ out.success
  /\ out.topic = TopicEnum /\ out.replaced = "H1" /\ out.path = "/b"
  /\ ~isWebhookPath(webhookRegistry, "/a")
  /\ isWebhookPath(webhookRegistry, "/b")

====
